---- MODULE Spec2Model ----
(***************************************************************************)
(* A model of egcoder/telegram-ai-bot: the invitation-only authorization   *)
(* of the two bots of the repository (the single-file bot src/bot.py and   *)
(* the packaged bot src/src/telegram_ai_bot) and the voice pipeline with   *)
(* its transcription fallback chain.                                       *)
(*                                                                         *)
(* Handlers are coroutines on one asyncio event loop: a handler runs       *)
(* without interruption from one await to the next.  A handler task is     *)
(* modelled by a program counter; `running` names the task that is inside  *)
(* a synchronous section that the model splits into statements.  An update *)
(* arrives and its handler runs to its first await in one step.            *)
(***************************************************************************)
EXTENDS Integers, Sequences, FiniteSets, TLC

(***************************************************************************)
(* Bounds of the model.                                                    *)
(***************************************************************************)
MaxTasks == 2   \* handler tasks that may be in flight at once
MaxNow == 2     \* the clock stops after this many days

(***************************************************************************)
(* Program constants and the small input sets.                             *)
(***************************************************************************)
ADMIN_USER_ID == 1          \* os.getenv('ADMIN_USER_ID'), a configured identity
VALIDITY_DAYS == 1          \* "This link will expire in 24 hours."

Users == {ADMIN_USER_ID, 999, 1000}
Tokens == {"T1", "T2"}      \* values secrets.token_urlsafe(16) may return
Tasks == 1..MaxTasks
NoTask == {}
NoAdmin == 0              \* admin_user_id = None

\* context.args of /start: none, a word, or the deep-link parameter
\* "invite_<token>", kept as the prefix and the rest.
StartArgs == {<<>>, <<"foo">>} \cup {<<"invite_", t>> : t \in Tokens}

(***************************************************************************)
(* The authorization file: absent, not usable as {"users": [...]}         *)
(* (empty, unparsable, wrong shape, half written), or holding a list.      *)
(***************************************************************************)
FileMissing == [kind |-> "missing", users |-> {}]
FileCorrupt == [kind |-> "corrupt", users |-> {}]
FileJson(S) == [kind |-> "json", users |-> S]
FileStates == {FileMissing, FileCorrupt} \cup {FileJson(S) : S \in SUBSET Users}

\* open(..., 'w') may fail (file untouched), json.dump may fail after the
\* file was truncated (file unusable), or the write completes.
SaveOutcomes == {"ok", "open_failed", "write_failed"}
WriteFile(f, S, outcome) ==
    CASE outcome = "ok" -> FileJson(S)
      [] outcome = "open_failed" -> f
      [] outcome = "write_failed" -> FileCorrupt

(***************************************************************************)
(* Texts: what a transcription backend prints or returns, as a sequence    *)
(* of characters.                                                          *)
(***************************************************************************)
Whitespace == {" ", "\n"}
Outputs == {<< >>, <<"a">>, <<"a", "\n">>, <<" ", "a">>}
NoText == <<"None">>        \* Python's None where a text is expected

RECURSIVE LStrip(_)
LStrip(s) == IF s # << >> /\ Head(s) \in Whitespace THEN LStrip(Tail(s)) ELSE s
RECURSIVE RStrip(_)
RStrip(s) == IF s # << >> /\ s[Len(s)] \in Whitespace
             THEN RStrip(SubSeq(s, 1, Len(s) - 1)) ELSE s
\* str.strip()
Strip(s) == RStrip(LStrip(s))

VARIABLES
    \* ---- src/bot.py TelegramAIBot ----
    constructed,          \* __init__ has run
    authorized_users,     \* self.authorized_users
    users_json,           \* the file authorized_users.json
    has_pending,          \* hasattr(self, 'pending_invitations')
    pending_invitations,  \* self.pending_invitations: token -> record
    now,                  \* datetime.now(), in days
    tasks,                \* the handler tasks of the event loop
    running,              \* the task inside a synchronous section: {h} or NoTask
    \* ---- history (not program state) ----
    issued,               \* tokens generated so far
    loaded,               \* what __init__ read from the file
    grantedBy,            \* token -> identities line 202 added for it
    grantCount,           \* token -> number of times line 202 ran for it
    \* ---- the packaged bot: core/bot.py with utils/user_manager.py ----
    pkg_up,               \* "off", "up", or "failed" (__init__ raised)
    users,                \* UserManager.users
    users_file,           \* UserManager.users_file on disk
    admin_user_id,        \* UserManager.admin_user_id, NoAdmin for None
    presented,            \* history: tokens sent to /start so far
    \* ---- one voice message: handle_voice and transcribe_audio ----
    variant,              \* "pkg": handlers/message_handlers.py, "mono": src/bot.py
    v_auth,               \* is_authorized(user_id) for the sender
    vpc,                  \* the await at which handle_voice is suspended
    vreply,               \* the last text handed to reply_text / edit_text
    tmp,                  \* the temporary audio file: none, empty, data, removed
    path_known,           \* the local variable holding its path is bound
    tpc,                  \* AIService.transcribe_audio: idle, s1, s2, s3, returned, raised
    attempts,             \* history: what each backend attempt produced
    transcript,           \* the value transcribe_audio returned
    analysis,             \* none, ok, failed (the call raised) or degraded
    \* ---- history of the calls made on a UserManager ----
    last_call,            \* the last call: its arguments, result and state before
    all_saved             \* no write of the file has failed so far

monoVars == <<constructed, authorized_users, users_json, has_pending,
              pending_invitations, now, tasks, running, issued, loaded,
              grantedBy, grantCount>>

\* the variables of src/bot.py that the packaged bot's handlers do not share
monoOnly == <<constructed, authorized_users, users_json, has_pending,
              pending_invitations, now, loaded, grantedBy, grantCount>>

pkgVars == <<pkg_up, users, users_file, admin_user_id, presented>>

voiceVars == <<variant, v_auth, vpc, vreply, tmp, path_known, tpc, attempts,
               transcript, analysis>>

umVars == <<last_call, all_saved>>

vars == <<monoVars, pkgVars, voiceVars, umVars>>

IdleTask == [pc |-> "idle", kind |-> "none", user |-> 0, token |-> "none",
             reply |-> "none", found |-> FALSE, expired |-> FALSE]

(***************************************************************************)
(* src/bot.py: construction.                                               *)
(***************************************************************************)
\* load_authorized_users: set(data.get('users', [])) when the file parses,
\* otherwise the set stays empty (the exception is logged).
load_authorized_users(f) == IF f.kind = "json" THEN f.users ELSE {}

\* TelegramAIBot.__init__: load, then add the administrator (no save).
MonoConstruct ==
    /\ ~constructed
    /\ constructed' = TRUE
    /\ loaded' = load_authorized_users(users_json)
    /\ authorized_users' =
          IF ADMIN_USER_ID # 0
          THEN load_authorized_users(users_json) \cup {ADMIN_USER_ID}
          ELSE load_authorized_users(users_json)
    /\ UNCHANGED <<users_json, has_pending, pending_invitations, now, tasks,
                   running, issued, grantedBy, grantCount>>
    /\ UNCHANGED <<pkgVars, voiceVars, umVars>>

is_authorized(u) == u \in authorized_users

\* Time passes.
Tick ==
    /\ constructed
    /\ now < MaxNow
    /\ now' = now + 1
    /\ UNCHANGED <<constructed, authorized_users, users_json, has_pending,
                   pending_invitations, tasks, running, issued, loaded,
                   grantedBy, grantCount>>
    /\ UNCHANGED <<pkgVars, voiceVars, umVars>>

(***************************************************************************)
(* src/bot.py: the command handlers.  An update of user u arrives for a    *)
(* free task h, which runs to the await of its reply.                      *)
(***************************************************************************)
\* the event loop is free and task h can take an update (the Application
\* takes the next update when the handler of the last one has returned)
CanStart(h) ==
    constructed /\ running = NoTask /\ tasks[h].pc = "idle" /\ vpc = "off"

\* handle_start_with_param: context.args and args[0].startswith('invite_')
IsInviteArg(a) == a # <<>> /\ Head(a) = "invite_"
\* args[0][7:]
TokenOfArg(a) == a[2]

IsPending(t) == has_pending /\ t \in DOMAIN pending_invitations

\* start: /start without an invitation parameter.
MonoStart(h, u, a) ==
    /\ CanStart(h)
    /\ ~IsInviteArg(a)
    /\ tasks' = [tasks EXCEPT ![h] = [IdleTask EXCEPT !.pc = "reply",
                    !.kind = "start", !.user = u,
                    !.reply = IF is_authorized(u) THEN "welcome" ELSE "denied"]]
    /\ UNCHANGED <<constructed, authorized_users, users_json, has_pending,
                   pending_invitations, now, running, issued, loaded,
                   grantedBy, grantCount>>
    /\ UNCHANGED <<pkgVars, voiceVars, umVars>>

\* invite_command without the check of lines 165-167: anyone is issued a
\* token.
MonoInvite_NoCheck(h, u) ==
    /\ CanStart(h)
    /\ u # ADMIN_USER_ID
    /\ \E t \in Tokens \ issued :
          /\ has_pending' = TRUE
          /\ pending_invitations' =
                [x \in DOMAIN pending_invitations \cup {t} |->
                    IF x = t THEN [created_by |-> u, created_at |-> now]
                             ELSE pending_invitations[x]]
          /\ issued' = issued \cup {t}
          /\ tasks' = [tasks EXCEPT ![h] = [IdleTask EXCEPT !.pc = "reply",
                          !.kind = "invite", !.user = u, !.token = t,
                          !.reply = "invitation"]]
    /\ UNCHANGED <<constructed, authorized_users, users_json, now, running,
                   loaded, grantedBy, grantCount>>
    /\ UNCHANGED <<pkgVars, voiceVars, umVars>>

\* invite_command, lines 165-167: anyone but the administrator is refused.
MonoInviteRefused(h, u) ==
    /\ CanStart(h)
    /\ u # ADMIN_USER_ID
    /\ tasks' = [tasks EXCEPT ![h] = [IdleTask EXCEPT !.pc = "reply",
                    !.kind = "invite", !.user = u, !.reply = "only_admin"]]
    /\ UNCHANGED <<constructed, authorized_users, users_json, has_pending,
                   pending_invitations, now, running, issued, loaded,
                   grantedBy, grantCount>>
    /\ UNCHANGED <<pkgVars, voiceVars, umVars>>

\* invite_command, lines 169-194: a new token (one never drawn before) is
\* stored with its issuer and creation time and sent as a link.
MonoInviteIssue(h, u) ==
    /\ CanStart(h)
    /\ u = ADMIN_USER_ID
    /\ \E t \in Tokens \ issued :
          /\ has_pending' = TRUE
          /\ pending_invitations' =
                [x \in DOMAIN pending_invitations \cup {t} |->
                    IF x = t THEN [created_by |-> u, created_at |-> now]
                             ELSE pending_invitations[x]]
          /\ issued' = issued \cup {t}
          /\ tasks' = [tasks EXCEPT ![h] = [IdleTask EXCEPT !.pc = "reply",
                          !.kind = "invite", !.user = u, !.token = t,
                          !.reply = "invitation"]]
    /\ UNCHANGED <<constructed, authorized_users, users_json, now, running,
                   loaded, grantedBy, grantCount>>
    /\ UNCHANGED <<pkgVars, voiceVars, umVars>>

invite_command(h, u) == MonoInviteRefused(h, u) \/ MonoInviteIssue(h, u)

(***************************************************************************)
(* src/bot.py: process_invitation, statement by statement.  Lines 198-206  *)
(* hold no await: the task keeps the event loop from the check to the      *)
(* removal (running = {h}).                                                *)
(***************************************************************************)
\* PI_Add with a suspension point after the add (as if the save were
\* awaited): the event loop is released before the token is removed.
PI_Add_Awaits(h, u, t) ==
    /\ CanStart(h)
    /\ IsPending(t)
    /\ authorized_users' = authorized_users \cup {u}
    /\ grantedBy' = [grantedBy EXCEPT ![t] = @ \cup {u}]
    /\ grantCount' = [grantCount EXCEPT ![t] = @ + 1]
    /\ tasks' = [tasks EXCEPT ![h] = [IdleTask EXCEPT !.pc = "added",
                    !.kind = "redeem", !.user = u, !.token = t,
                    !.found = TRUE,
                    !.expired = (now - pending_invitations[t].created_at
                                    > VALIDITY_DAYS)]]
    /\ running' = NoTask
    /\ UNCHANGED <<constructed, users_json, has_pending, pending_invitations,
                   now, issued, loaded>>
    /\ UNCHANGED <<pkgVars, voiceVars, umVars>>

\* lines 200-202: the token is pending, the redeemer is added
PI_Add(h, u, t) ==
    /\ CanStart(h)
    /\ IsPending(t)
    /\ authorized_users' = authorized_users \cup {u}
    /\ grantedBy' = [grantedBy EXCEPT ![t] = @ \cup {u}]
    /\ grantCount' = [grantCount EXCEPT ![t] = @ + 1]
    /\ tasks' = [tasks EXCEPT ![h] = [IdleTask EXCEPT !.pc = "added",
                    !.kind = "redeem", !.user = u, !.token = t,
                    !.found = TRUE,
                    !.expired = (now - pending_invitations[t].created_at
                                    > VALIDITY_DAYS)]]
    /\ running' = {h}
    /\ UNCHANGED <<constructed, users_json, has_pending, pending_invitations,
                   now, issued, loaded>>
    /\ UNCHANGED <<pkgVars, voiceVars, umVars>>

\* PI_Invalid that also empties the pending map.
PI_Invalid_ClearsPending(h, u, t) ==
    /\ CanStart(h)
    /\ ~IsPending(t)
    /\ pending_invitations' = << >>
    /\ tasks' = [tasks EXCEPT ![h] = [IdleTask EXCEPT !.pc = "reply",
                    !.kind = "redeem", !.user = u, !.token = t,
                    !.reply = "invalid"]]
    /\ UNCHANGED <<constructed, authorized_users, users_json, has_pending,
                   now, running, issued, loaded, grantedBy, grantCount>>
    /\ UNCHANGED <<pkgVars, voiceVars, umVars>>

\* lines 200, 212-215: the token is not pending
PI_Invalid(h, u, t) ==
    /\ CanStart(h)
    /\ ~IsPending(t)
    /\ tasks' = [tasks EXCEPT ![h] = [IdleTask EXCEPT !.pc = "reply",
                    !.kind = "redeem", !.user = u, !.token = t,
                    !.reply = "invalid"]]
    /\ UNCHANGED <<constructed, authorized_users, users_json, has_pending,
                   pending_invitations, now, running, issued, loaded,
                   grantedBy, grantCount>>
    /\ UNCHANGED <<pkgVars, voiceVars, umVars>>

\* PI_Save writing the file it read at construction and the redeemer, not
\* the set in memory.
PI_Save_FromLoaded(h) ==
    /\ tasks[h].pc = "added"
    /\ \E outcome \in SaveOutcomes :
          /\ users_json' = WriteFile(users_json, loaded \cup {tasks[h].user},
                                     outcome)
          /\ all_saved' = (all_saved /\ outcome = "ok")
    /\ tasks' = [tasks EXCEPT ![h].pc = "saved"]
    /\ UNCHANGED <<constructed, authorized_users, has_pending,
                   pending_invitations, now, running, issued, loaded,
                   grantedBy, grantCount>>
    /\ UNCHANGED <<pkgVars, voiceVars, last_call>>

\* line 203: save_authorized_users writes the whole set in memory; it logs
\* and swallows a failed write
PI_Save(h) ==
    /\ tasks[h].pc = "added"
    /\ \E outcome \in SaveOutcomes :
          /\ users_json' = WriteFile(users_json, authorized_users, outcome)
          /\ all_saved' = (all_saved /\ outcome = "ok")
    /\ tasks' = [tasks EXCEPT ![h].pc = "saved"]
    /\ UNCHANGED <<constructed, authorized_users, has_pending,
                   pending_invitations, now, running, issued, loaded,
                   grantedBy, grantCount>>
    /\ UNCHANGED <<pkgVars, voiceVars, last_call>>

\* PI_Delete without the del: the redeemed token stays pending.
PI_Delete_KeepsToken(h) ==
    /\ tasks[h].pc = "saved"
    /\ tasks' = [tasks EXCEPT ![h].pc = "reply", ![h].reply = "granted"]
    /\ running' = NoTask
    /\ UNCHANGED <<constructed, authorized_users, users_json, has_pending,
                   pending_invitations, now, issued, loaded, grantedBy,
                   grantCount>>
    /\ UNCHANGED <<pkgVars, voiceVars, umVars>>

\* line 206: del self.pending_invitations[token]; the welcome is awaited next
PI_Delete(h) ==
    /\ tasks[h].pc = "saved"
    /\ pending_invitations' =
          [x \in DOMAIN pending_invitations \ {tasks[h].token} |->
              pending_invitations[x]]
    /\ tasks' = [tasks EXCEPT ![h].pc = "reply", ![h].reply = "granted"]
    /\ running' = NoTask
    /\ UNCHANGED <<constructed, authorized_users, users_json, has_pending,
                   now, issued, loaded, grantedBy, grantCount>>
    /\ UNCHANGED <<pkgVars, voiceVars, umVars>>

\* handle_start_with_param: an invitation parameter goes to
\* process_invitation, anything else to start.
handle_start_with_param(h, u, a) ==
    \/ (IsInviteArg(a) /\ PI_Add(h, u, TokenOfArg(a)))
    \/ (IsInviteArg(a) /\ PI_Invalid(h, u, TokenOfArg(a)))
    \/ MonoStart(h, u, a)

\* await update.message.reply_text(...) returns: the handler ends
SendReply(h) ==
    /\ running = NoTask
    /\ tasks[h].pc = "reply"
    /\ tasks' = [tasks EXCEPT ![h] = IdleTask]
    /\ UNCHANGED <<constructed, authorized_users, users_json, has_pending,
                   pending_invitations, now, running, issued, loaded,
                   grantedBy, grantCount>>
    /\ UNCHANGED <<pkgVars, voiceVars, umVars>>

\* what a handler task of the single-file bot may do, for the tasks H
MonoHandlers(H) ==
    \/ \E h \in H, u \in Users, a \in StartArgs : handle_start_with_param(h, u, a)
    \/ \E h \in H, u \in Users : invite_command(h, u)
    \/ \E h \in H : PI_Save(h) \/ PI_Delete(h) \/ SendReply(h)

(***************************************************************************)
(* The packaged bot: utils/user_manager.py UserManager.                    *)
(***************************************************************************)
\* _load_users reading a key the file does not have.
UM_load_users_WrongKey(f) == {}

\* _load_users: set(data.get('users', [])), or set() on any exception
UM_load_users(f) == IF f.kind = "json" THEN f.users ELSE {}

\* UserManager.__init__(users_file, admin_user_id): _ensure_file_exists
\* writes {"users": []} when the file is absent (an error there is not
\* caught), _load_users reads it, and the administrator, when one was
\* passed, is added with add_user (which saves).
UserManager_init(admin) ==
    \E o1 \in SaveOutcomes, o2 \in SaveOutcomes :
        LET absent == users_file.kind = "missing"
            f1 == IF absent THEN WriteFile(users_file, {}, o1) ELSE users_file
            raised == absent /\ o1 # "ok"
            ld == UM_load_users(f1)
            bootstrap == admin # NoAdmin /\ admin \notin ld
        IN  /\ admin_user_id' = admin
            /\ IF raised
               THEN /\ pkg_up' = "failed"
                    /\ users' = {}
                    /\ users_file' = f1
               ELSE /\ pkg_up' = "up"
                    /\ users' = IF bootstrap THEN ld \cup {admin} ELSE ld
                    /\ users_file' =
                          IF bootstrap
                          THEN WriteFile(f1, ld \cup {admin}, o2)
                          ELSE f1

\* core/bot.py TelegramAIBot.__init__, line 24:
\* UserManager(self.config.AUTHORIZED_USERS_FILE), no administrator passed.
PkgConstruct ==
    /\ pkg_up = "off"
    /\ UserManager_init(NoAdmin)
    /\ UNCHANGED <<monoOnly, voiceVars, umVars, tasks, running, issued, presented>>

\* the event loop is free and task h can take an update of the packaged bot
PkgCanStart(h) ==
    pkg_up = "up" /\ running = NoTask /\ tasks[h].pc = "idle" /\ vpc = "off"

(***************************************************************************)
(* utils/user_manager.py: the methods of UserManager, and calls made on a  *)
(* store directly.                                                         *)
(***************************************************************************)
\* add_user that answers True and saves whether or not the user is new.
add_user_AlwaysTrue(U, f, u, outcome) ==
    [users |-> U \cup {u}, file |-> WriteFile(f, U \cup {u}, outcome),
     ret |-> TRUE]

\* add_user: a new user is added and the set saved (_save_users logs and
\* swallows a failed write); the result tells whether the user was new
add_user(U, f, u, outcome) ==
    IF u \notin U
    THEN [users |-> U \cup {u}, file |-> WriteFile(f, U \cup {u}, outcome),
          ret |-> TRUE]
    ELSE [users |-> U, file |-> f, ret |-> FALSE]

\* remove_user that empties the set.
remove_user_DropsAll(U, f, u, outcome) ==
    IF u \in U
    THEN [users |-> {}, file |-> WriteFile(f, {}, outcome), ret |-> TRUE]
    ELSE [users |-> U, file |-> f, ret |-> FALSE]

\* remove_user: a member is removed and the set saved; the result tells
\* whether the user was a member.  The administrator is not treated apart.
remove_user(U, f, u, outcome) ==
    IF u \in U
    THEN [users |-> U \ {u}, file |-> WriteFile(f, U \ {u}, outcome),
          ret |-> TRUE]
    ELSE [users |-> U, file |-> f, ret |-> FALSE]

NoCall == [op |-> "none", user |-> 0, ret |-> FALSE, outcome |-> "none",
           before |-> {}, file_before |-> FileMissing, saved |-> TRUE,
           prev |-> [op |-> "none", user |-> 0, before |-> {}]]

\* the record of a call, made in the state before it
Call(op, u, ret, outcome) ==
    [op |-> op, user |-> u, ret |-> ret, outcome |-> outcome,
     before |-> users, file_before |-> users_file, saved |-> all_saved,
     prev |-> [op |-> last_call.op, user |-> last_call.user,
               before |-> last_call.before]]

\* UserManager(users_file, admin): the first store, or another one made
\* from the same file with the same administrator
UM_Construct(admin) ==
    /\ pkg_up \in {"off", "up"}
    /\ pkg_up = "up" => admin = admin_user_id
    /\ UserManager_init(admin)
    /\ last_call' = Call(IF pkg_up = "off" THEN "init" ELSE "reinit",
                         admin, FALSE, "none")
    /\ all_saved' = (all_saved /\
                       (admin # NoAdmin => admin \in UM_load_users(users_file')))
    /\ UNCHANGED <<monoVars, voiceVars, presented>>

\* store.add_user(u)
UM_add_user(u) ==
    /\ pkg_up = "up"
    /\ \E outcome \in SaveOutcomes :
        LET r == add_user(users, users_file, u, outcome) IN
        /\ users' = r.users
        /\ users_file' = r.file
        /\ last_call' = Call("add", u, r.ret, IF r.ret THEN outcome ELSE "none")
        /\ all_saved' = (all_saved /\ (r.ret => outcome = "ok"))
    /\ UNCHANGED <<monoVars, voiceVars, pkg_up, admin_user_id, presented>>

\* store.remove_user(u)
UM_remove_user(u) ==
    /\ pkg_up = "up"
    /\ \E outcome \in SaveOutcomes :
        LET r == remove_user(users, users_file, u, outcome) IN
        /\ users' = r.users
        /\ users_file' = r.file
        /\ last_call' = Call("remove", u, r.ret, IF r.ret THEN outcome ELSE "none")
        /\ all_saved' = (all_saved /\ (r.ret => outcome = "ok"))
    /\ UNCHANGED <<monoVars, voiceVars, pkg_up, admin_user_id, presented>>

(***************************************************************************)
(* The packaged bot: handlers/command_handlers.py.                         *)
(***************************************************************************)
\* start_command without lines 16-20: the administrator is not added.
PkgStart_NoAutoAdd(h, u, a) ==
    /\ PkgCanStart(h)
    /\ LET t == IF IsInviteArg(a) THEN TokenOfArg(a) ELSE "none" IN
        /\ presented' = IF t \in issued THEN presented \cup {t} ELSE presented
        /\ tasks' = [tasks EXCEPT ![h] = [IdleTask EXCEPT !.pc = "reply",
                        !.kind = "start", !.user = u, !.token = t,
                        !.found = (t \in issued /\ t \notin presented),
                        !.reply = IF u \in users THEN "welcome" ELSE "denied"]]
    /\ UNCHANGED <<monoOnly, voiceVars, umVars, running, issued, pkg_up,
                   users, users_file, admin_user_id>>

\* start_command: the administrator is added if missing (add_user saves);
\* a member is welcomed, anyone else is denied.  context.args is not read.
PkgStart(h, u, a) ==
    /\ PkgCanStart(h)
    /\ \E outcome \in SaveOutcomes :
        LET is_admin == u = ADMIN_USER_ID
            autoadd == is_admin /\ u \notin users
            r == add_user(users, users_file, u, outcome)
            users1 == IF autoadd THEN r.users ELSE users
            t == IF IsInviteArg(a) THEN TokenOfArg(a) ELSE "none"
        IN  /\ users' = users1
            /\ users_file' = IF autoadd THEN r.file ELSE users_file
            /\ last_call' = IF autoadd THEN Call("add", u, r.ret, outcome)
                                       ELSE last_call
            /\ all_saved' = (all_saved /\ (autoadd => outcome = "ok"))
            /\ presented' = IF t \in issued THEN presented \cup {t}
                                            ELSE presented
            /\ tasks' = [tasks EXCEPT ![h] = [IdleTask EXCEPT !.pc = "reply",
                            !.kind = "start", !.user = u, !.token = t,
                            !.found = (t \in issued /\ t \notin presented),
                            !.reply = IF u \in users1 THEN "welcome"
                                                      ELSE "denied"]]
    /\ UNCHANGED <<monoOnly, voiceVars, running, issued, pkg_up, admin_user_id>>

\* invite_command, lines 83-88: anyone but the administrator is refused.
PkgInviteRefused(h, u) ==
    /\ PkgCanStart(h)
    /\ u # ADMIN_USER_ID
    /\ tasks' = [tasks EXCEPT ![h] = [IdleTask EXCEPT !.pc = "reply",
                    !.kind = "invite", !.user = u, !.reply = "only_admin"]]
    /\ UNCHANGED <<monoOnly, voiceVars, umVars, running, issued, pkgVars>>

\* invite_command, lines 90-108, with UserManager.generate_invite_token: a
\* new token is drawn and sent as a link; nothing is stored.
PkgInviteIssue(h, u) ==
    /\ PkgCanStart(h)
    /\ u = ADMIN_USER_ID
    /\ \E t \in Tokens \ issued :
          /\ issued' = issued \cup {t}
          /\ tasks' = [tasks EXCEPT ![h] = [IdleTask EXCEPT !.pc = "reply",
                          !.kind = "invite", !.user = u, !.token = t,
                          !.reply = "invitation"]]
    /\ UNCHANGED <<monoOnly, voiceVars, umVars, running, pkgVars>>

\* query.data of a callback query: "accept_invite_" and a rest, or
\* something else.  The rest is whatever the client sent.
CallbackData == {<<"accept_invite_", t>> : t \in Tokens} \cup {<<"other">>}

\* handle_callback, lines 115-117: a callback query of user u arrives and
\* query.answer() is awaited
PkgCallback(h, u, d) ==
    /\ PkgCanStart(h)
    /\ tasks' = [tasks EXCEPT ![h] = [IdleTask EXCEPT !.pc = "answer",
                    !.kind = "callback", !.user = u,
                    !.token = IF Head(d) = "accept_invite_" THEN d[2]
                                                            ELSE "none",
                    !.found = (Head(d) = "accept_invite_")]]
    /\ UNCHANGED <<monoOnly, voiceVars, umVars, running, issued, pkgVars>>

\* handle_callback, lines 119-131: query.answer() returned or raised; for
\* data that starts with accept_invite_ the sender is added with add_user
\* (which saves) and told so.  The rest of the data is not read.
PkgCallbackAnswered(h) ==
    /\ running = NoTask
    /\ tasks[h].pc = "answer"
    /\ \E ok \in BOOLEAN, outcome \in SaveOutcomes :
        LET u == tasks[h].user
            r == add_user(users, users_file, u, outcome)
        IN  IF ok /\ tasks[h].found
            THEN /\ users' = r.users
                 /\ users_file' = r.file
                 /\ last_call' = Call("add", u, r.ret,
                                      IF r.ret THEN outcome ELSE "none")
                 /\ all_saved' = (all_saved /\ (r.ret => outcome = "ok"))
                 /\ tasks' = [tasks EXCEPT ![h].pc = "reply",
                        ![h].reply = IF r.ret THEN "granted" ELSE "already"]
            ELSE /\ tasks' = [tasks EXCEPT ![h] = IdleTask]
                 /\ UNCHANGED <<users, users_file, umVars>>
    /\ UNCHANGED <<monoOnly, voiceVars, running, issued, pkg_up,
                   admin_user_id, presented>>

\* the command handlers of the packaged bot, for the tasks H
PkgCommands(H) ==
    \/ \E h \in H, u \in Users, a \in StartArgs : PkgStart(h, u, a)
    \/ \E h \in H, u \in Users : PkgInviteRefused(h, u)
    \/ \E h \in H, u \in Users : PkgInviteIssue(h, u)
    \/ \E h \in H : SendReply(h)

\* the command handlers and the callback query handler
PkgHandlers(H) ==
    \/ PkgCommands(H)
    \/ \E h \in H, u \in Users, d \in CallbackData : PkgCallback(h, u, d)
    \/ \E h \in H : PkgCallbackAnswered(h)

(***************************************************************************)
(* The transcription strategies.  A subprocess run ends with exit status   *)
(* 0, with another status, is killed at its timeout, or cannot be run at   *)
(* all (OSError); a call of the OpenAI client returns a text or raises.    *)
(* err tells what went wrong at the backend: nothing, an error whose       *)
(* message names response_format (the pollution signature), another        *)
(* error, or an HTTP error response that curl wrote to stdout.             *)
(***************************************************************************)
ProcRuns == {[status |-> "exit0", out |-> o, err |-> "none"] : o \in Outputs}
            \cup {[status |-> "exit1", out |-> << >>, err |-> e] :
                      e \in {"response_format", "other"}}
            \cup {[status |-> s, out |-> << >>, err |-> "other"] :
                      s \in {"timeout", "oserror"}}
ApiCalls == {[status |-> "ok", out |-> o, err |-> "none"] : o \in Outputs}
            \cup {[status |-> "error", out |-> << >>, err |-> e] :
                      e \in {"response_format", "other"}}

\* the body of an error response of the transcription backend
ErrorBody == <<"{", "e", "}">>

\* curl is run without --fail: on an HTTP error response it writes the body
\* to stdout and exits with status 0
CurlRuns == ProcRuns \cup
            {[status |-> "exit0", out |-> ErrorBody, err |-> e] :
                e \in {"http_response_format", "http_other"}}

Returned(x) == [raised |-> FALSE, text |-> x]
Raised == [raised |-> TRUE, text |-> NoText]

\* an entry of the attempt history
Attempt(strategy, call, r) ==
    [strategy |-> strategy, call |-> call, status |-> r.status,
     out |-> r.out, err |-> r.err]

\* IsolatedWhisperService.transcribe with a nonzero exit status taken for
\* success.
IsolatedWhisperService_transcribe_IgnoresExit(run) ==
    IF run.status = "oserror" THEN Raised
    ELSE IF run.status = "timeout" THEN Raised
    ELSE Returned(Strip(run.out))

\* IsolatedWhisperService.transcribe: subprocess.run(..., timeout=30);
\* TimeoutExpired and a nonzero returncode raise, any other exception
\* passes through, otherwise stdout.strip().
IsolatedWhisperService_transcribe(run) ==
    IF run.status = "oserror" THEN Raised
    ELSE IF run.status = "timeout" THEN Raised
    ELSE IF run.status # "exit0" THEN Raised
    ELSE Returned(Strip(run.out))

\* transcribe_with_curl: subprocess.run(cmd, timeout=35); any exception is
\* logged and raised again, a nonzero returncode raises, otherwise
\* stdout.strip().
transcribe_with_curl(run) ==
    IF run.status \in {"oserror", "timeout"} THEN Raised
    ELSE IF run.status # "exit0" THEN Raised
    ELSE Returned(Strip(run.out))

\* WhisperService.transcribe without the second call: the error of the
\* minimal call is raised.
WhisperService_transcribe_NoRetry(exists, minimal, explicit) ==
    IF ~exists THEN Raised
    ELSE IF minimal.status = "ok" THEN Returned(minimal.out)
    ELSE Raised

\* WhisperService.transcribe: the minimal call, and if it raises one call
\* with response_format="text"; whatever that one raises is raised.
WhisperService_transcribe(exists, minimal, explicit) ==
    IF ~exists THEN Raised
    ELSE IF minimal.status = "ok" THEN Returned(minimal.out)
    ELSE IF explicit.status = "ok" THEN Returned(explicit.out)
    ELSE Raised

\* the backend calls WhisperService.transcribe made
WhisperService_calls(exists, minimal, explicit) ==
    IF ~exists
    THEN <<[strategy |-> "inprocess", call |-> "none", status |-> "no_file",
            out |-> << >>, err |-> "other"]>>
    ELSE IF minimal.status = "ok"
    THEN <<Attempt("inprocess", "minimal", minimal)>>
    ELSE <<Attempt("inprocess", "minimal", minimal),
           Attempt("inprocess", "text", explicit)>>

TmpExists == tmp \in {"empty", "data"}

(***************************************************************************)
(* utils/ai_service.py AIService.transcribe_audio: each strategy runs in   *)
(* the executor and is awaited.                                            *)
(***************************************************************************)
voiceFrame == UNCHANGED <<monoVars, pkgVars, umVars, variant, v_auth>>

\* TA_Isolated giving up on an error that names response_format.
TA_Isolated_PollutionTerminal ==
    /\ tpc = "s1"
    /\ \E run \in ProcRuns :
        LET r == IsolatedWhisperService_transcribe(run) IN
        /\ attempts' = Append(attempts, Attempt("subprocess", "text", run))
        /\ IF r.raised
           THEN /\ tpc' = IF run.err = "response_format" THEN "raised" ELSE "s2"
                /\ UNCHANGED transcript
           ELSE tpc' = "returned" /\ transcript' = r.text
    /\ UNCHANGED <<vpc, vreply, tmp, path_known, analysis>>
    /\ voiceFrame

\* lines 35-41 and 51-53: the isolated subprocess; its text is returned.
\* `except Exception` of line 42 does not look at the error.
TA_Isolated ==
    /\ tpc = "s1"
    /\ \E run \in ProcRuns :
        LET r == IsolatedWhisperService_transcribe(run) IN
        /\ attempts' = Append(attempts, Attempt("subprocess", "text", run))
        /\ IF r.raised
           THEN tpc' = "s2" /\ UNCHANGED transcript
           ELSE tpc' = "returned" /\ transcript' = r.text
    /\ UNCHANGED <<vpc, vreply, tmp, path_known, analysis>>
    /\ voiceFrame

\* TA_Curl without the outer except: a failure of curl reaches the caller.
TA_Curl_NoLastResort ==
    /\ tpc = "s2"
    /\ \E run \in CurlRuns :
        LET r == transcribe_with_curl(run) IN
        /\ attempts' = Append(attempts, Attempt("curl", "text", run))
        /\ IF r.raised
           THEN tpc' = "raised" /\ UNCHANGED transcript
           ELSE tpc' = "returned" /\ transcript' = r.text
    /\ UNCHANGED <<vpc, vreply, tmp, path_known, analysis>>
    /\ voiceFrame

\* lines 42-53: curl, in the handler of the subprocess's exception
TA_Curl ==
    /\ tpc = "s2"
    /\ \E run \in CurlRuns :
        LET r == transcribe_with_curl(run) IN
        /\ attempts' = Append(attempts, Attempt("curl", "text", run))
        /\ IF r.raised
           THEN tpc' = "s3" /\ UNCHANGED transcript
           ELSE tpc' = "returned" /\ transcript' = r.text
    /\ UNCHANGED <<vpc, vreply, tmp, path_known, analysis>>
    /\ voiceFrame

\* TA_Whisper with a client that has no timeout, on a call that never
\* returns.
TA_Whisper_NoTimeout ==
    /\ tpc = "s3"
    /\ UNCHANGED <<vpc, vreply, tmp, path_known, tpc, attempts, transcript,
                   analysis>>
    /\ voiceFrame

\* lines 54-69: WhisperService, in the outer except; nothing catches it
TA_Whisper ==
    /\ tpc = "s3"
    /\ \E minimal \in ApiCalls, explicit \in ApiCalls :
        LET r == WhisperService_transcribe(TmpExists, minimal, explicit) IN
        /\ attempts' = attempts \o
                          WhisperService_calls(TmpExists, minimal, explicit)
        /\ IF r.raised
           THEN tpc' = "raised" /\ UNCHANGED transcript
           ELSE tpc' = "returned" /\ transcript' = r.text
    /\ UNCHANGED <<vpc, vreply, tmp, path_known, analysis>>
    /\ voiceFrame

transcribe_audio == TA_Isolated \/ TA_Curl \/ TA_Whisper

(***************************************************************************)
(* handlers/message_handlers.py handle_voice.  vpc names the await the     *)
(* handler is suspended at; an action resumes it with the outcome of that  *)
(* await and runs it to the next one.                                      *)
(***************************************************************************)
\* the except block without its os.unlink
HV_except_NoCleanup ==
    /\ tmp' = tmp
    /\ vreply' = "could_not_process"
    /\ vpc' = "await_edit_error"

\* lines 106-144: the except block removes the file if audio_path is bound
\* and edits the processing message into the error text
HV_except ==
    /\ tmp' = IF path_known /\ TmpExists THEN "removed" ELSE tmp
    /\ vreply' = "could_not_process"
    /\ vpc' = "await_edit_error"

\* handle_voice without the return of line 29: the denial is sent and
\* the handler goes on.
HV_Begin_NoReturn ==
    /\ variant = "pkg" /\ vpc = "new"
    /\ vreply' = IF ~v_auth THEN "denied" ELSE "processing"
    /\ vpc' = "await_processing"
    /\ UNCHANGED <<tmp, path_known, tpc, attempts, transcript, analysis>>
    /\ voiceFrame

\* lines 20-34: the authorization check and the first reply
HV_Begin ==
    /\ variant = "pkg" /\ vpc = "new"
    /\ IF ~v_auth
       THEN vreply' = "denied" /\ vpc' = "await_denied"
       ELSE vreply' = "processing" /\ vpc' = "await_processing"
    /\ UNCHANGED <<tmp, path_known, tpc, attempts, transcript, analysis>>
    /\ voiceFrame

\* the denial was sent, or reply_text raised (it is outside any try)
HV_Denied ==
    /\ vpc = "await_denied"
    /\ \E ok \in BOOLEAN : vpc' = IF ok THEN "done" ELSE "raised"
    /\ UNCHANGED <<vreply, tmp, path_known, tpc, attempts, transcript, analysis>>
    /\ voiceFrame

\* lines 32-38: reply_text precedes the try
HV_Processing ==
    /\ variant = "pkg" /\ vpc = "await_processing"
    /\ \E ok \in BOOLEAN : vpc' = IF ok THEN "await_get_file" ELSE "raised"
    /\ UNCHANGED <<vreply, tmp, path_known, tpc, attempts, transcript, analysis>>
    /\ voiceFrame

\* lines 38-47: get_file returned; the temporary file is created and
\* audio_path bound before the download is awaited
HV_GetFile ==
    /\ variant = "pkg" /\ vpc = "await_get_file"
    /\ \E ok \in BOOLEAN :
        IF ok
        THEN /\ tmp' = "empty" /\ path_known' = TRUE
             /\ vpc' = "await_download"
             /\ UNCHANGED vreply
        ELSE HV_except /\ UNCHANGED path_known
    /\ UNCHANGED <<tpc, attempts, transcript, analysis>>
    /\ voiceFrame

\* lines 47-63: the download ended; an empty file raises, and so may
\* config.get_ai_service()
HV_Download ==
    /\ variant = "pkg" /\ vpc = "await_download"
    /\ \E dl \in {"raise", "empty", "data"}, service \in BOOLEAN :
        IF dl = "data" /\ service
        THEN /\ tmp' = "data"
             /\ vreply' = "transcribing"
             /\ vpc' = "await_edit_transcribing"
        ELSE HV_except
    /\ UNCHANGED <<path_known, tpc, attempts, transcript, analysis>>
    /\ voiceFrame

\* lines 63-65: transcribe_audio is called and awaited
HV_EditTranscribing ==
    /\ variant = "pkg" /\ vpc = "await_edit_transcribing"
    /\ \E ok \in BOOLEAN :
        IF ok
        THEN /\ tpc' = "s1" /\ vpc' = "await_transcribe"
             /\ UNCHANGED <<tmp, vreply>>
        ELSE HV_except /\ UNCHANGED tpc
    /\ UNCHANGED <<path_known, attempts, transcript, analysis>>
    /\ voiceFrame

\* lines 65-69: transcribe_audio returned or raised
HV_Transcribed ==
    /\ variant = "pkg" /\ vpc = "await_transcribe"
    /\ tpc \in {"returned", "raised"}
    /\ IF tpc = "returned"
       THEN /\ vreply' = "analyzing" /\ vpc' = "await_edit_analyzing"
            /\ UNCHANGED tmp
       ELSE HV_except
    /\ UNCHANGED <<path_known, tpc, attempts, transcript, analysis>>
    /\ voiceFrame

\* lines 69-70
HV_EditAnalyzing ==
    /\ variant = "pkg" /\ vpc = "await_edit_analyzing"
    /\ \E ok \in BOOLEAN :
        IF ok
        THEN vpc' = "await_analyze" /\ UNCHANGED <<tmp, vreply>>
        ELSE HV_except
    /\ UNCHANGED <<path_known, tpc, attempts, transcript, analysis>>
    /\ voiceFrame

\* lines 70-97: analyze_text returned or raised (it logs and raises again
\* what _analyze_sync raised); formatting the response may raise too
HV_Analyze ==
    /\ variant = "pkg" /\ vpc = "await_analyze"
    /\ \E analyzed \in BOOLEAN, formatted \in BOOLEAN :
        /\ analysis' = IF analyzed THEN "ok" ELSE "failed"
        /\ IF analyzed /\ formatted
           THEN /\ vreply' = "analysis" /\ vpc' = "await_edit_final"
                /\ UNCHANGED tmp
           ELSE HV_except
    /\ UNCHANGED <<path_known, tpc, attempts, transcript>>
    /\ voiceFrame

\* lines 92-104: the final text was shown, then the file is removed
HV_EditFinal ==
    /\ variant = "pkg" /\ vpc = "await_edit_final"
    /\ \E ok \in BOOLEAN :
        IF ok
        THEN /\ tmp' = IF TmpExists THEN "removed" ELSE tmp
             /\ vpc' = "done"
             /\ UNCHANGED vreply
        ELSE HV_except
    /\ UNCHANGED <<path_known, tpc, attempts, transcript, analysis>>
    /\ voiceFrame

\* the error text was shown, or showing it raised: nothing catches that
HV_EditError ==
    /\ vpc = "await_edit_error"
    /\ \E ok \in BOOLEAN : vpc' = IF ok THEN "done" ELSE "raised"
    /\ UNCHANGED <<vreply, tmp, path_known, tpc, attempts, transcript, analysis>>
    /\ voiceFrame

handle_voice ==
    \/ HV_Begin \/ HV_Denied \/ HV_Processing \/ HV_GetFile \/ HV_Download
    \/ HV_EditTranscribing \/ HV_Transcribed \/ HV_EditAnalyzing
    \/ HV_Analyze \/ HV_EditFinal \/ HV_EditError

(***************************************************************************)
(* src/bot.py handle_voice, with its own transcribe_audio and              *)
(* analyze_with_ai.                                                        *)
(***************************************************************************)
\* transcribe_audio, lines 217-229: one call; None on any exception
mono_transcribe_audio(exists, call) ==
    IF exists /\ call.status = "ok" THEN call.out ELSE NoText

\* `not transcript`: None and the empty string
Falsy(t) == t = NoText \/ t = << >>

\* lines 428-432: the except block only replies; the file stays
MV_except ==
    /\ tmp' = tmp
    /\ vreply' = "error_processing"
    /\ vpc' = "await_edit_error"

\* lines 335-343: the authorization check and the first reply
MV_Begin ==
    /\ variant = "mono" /\ vpc = "new"
    /\ IF ~v_auth
       THEN vreply' = "denied" /\ vpc' = "await_denied"
       ELSE vreply' = "processing" /\ vpc' = "await_processing"
    /\ UNCHANGED <<tmp, path_known, tpc, attempts, transcript, analysis>>
    /\ voiceFrame

\* lines 343-346: here the first reply is inside the try
MV_Processing ==
    /\ variant = "mono" /\ vpc = "await_processing"
    /\ \E ok \in BOOLEAN :
        IF ok
        THEN vpc' = "await_get_file" /\ UNCHANGED <<tmp, vreply>>
        ELSE MV_except
    /\ UNCHANGED <<path_known, tpc, attempts, transcript, analysis>>
    /\ voiceFrame

\* lines 346-350: the temporary file is created, the download awaited
MV_GetFile ==
    /\ variant = "mono" /\ vpc = "await_get_file"
    /\ \E ok \in BOOLEAN :
        IF ok
        THEN /\ tmp' = "empty" /\ vpc' = "await_download"
             /\ UNCHANGED vreply
        ELSE MV_except
    /\ UNCHANGED <<path_known, tpc, attempts, transcript, analysis>>
    /\ voiceFrame

\* lines 350-354: temp_file_path is bound after the download
MV_Download ==
    /\ variant = "mono" /\ vpc = "await_download"
    /\ \E dl \in {"raise", "empty", "data"} :
        IF dl # "raise"
        THEN /\ tmp' = dl /\ path_known' = TRUE
             /\ vreply' = "transcribing"
             /\ vpc' = "await_edit_transcribing"
        ELSE MV_except /\ UNCHANGED path_known
    /\ UNCHANGED <<tpc, attempts, transcript, analysis>>
    /\ voiceFrame

\* lines 354-362: transcribe_audio blocks, then `if not transcript`
MV_EditTranscribing ==
    /\ variant = "mono" /\ vpc = "await_edit_transcribing"
    /\ \E ok \in BOOLEAN, call \in ApiCalls :
        IF ok
        THEN LET t == mono_transcribe_audio(TmpExists, call) IN
             /\ transcript' = t
             /\ tmp' = tmp
             /\ IF Falsy(t)
                THEN vreply' = "could_not_transcribe" /\ vpc' = "await_edit_failed"
                ELSE vreply' = "analyzing" /\ vpc' = "await_edit_analyzing"
        ELSE MV_except /\ UNCHANGED transcript
    /\ UNCHANGED <<path_known, tpc, attempts, analysis>>
    /\ voiceFrame

\* lines 358-359: the handler returns
MV_EditFailed ==
    /\ variant = "mono" /\ vpc = "await_edit_failed"
    /\ \E ok \in BOOLEAN :
        IF ok
        THEN vpc' = "done" /\ UNCHANGED <<tmp, vreply>>
        ELSE MV_except
    /\ UNCHANGED <<path_known, tpc, attempts, transcript, analysis>>
    /\ voiceFrame

\* lines 362-421: analyze_with_ai returns the analysis or, on any error,
\* the placeholder; then the response is formatted, the file removed and
\* the processing message deleted
MV_EditAnalyzing ==
    /\ variant = "mono" /\ vpc = "await_edit_analyzing"
    /\ \E ok \in BOOLEAN, analyzed \in BOOLEAN, formatted \in BOOLEAN :
        IF ok
        THEN /\ analysis' = IF analyzed THEN "ok" ELSE "degraded"
             /\ IF analyzed => formatted
                THEN /\ tmp' = IF TmpExists THEN "removed" ELSE tmp
                     /\ vpc' = "await_delete"
                     /\ UNCHANGED vreply
                ELSE MV_except
        ELSE MV_except /\ UNCHANGED analysis
    /\ UNCHANGED <<path_known, tpc, attempts, transcript>>
    /\ voiceFrame

\* lines 421-426
MV_Delete ==
    /\ variant = "mono" /\ vpc = "await_delete"
    /\ \E ok \in BOOLEAN :
        IF ok
        THEN /\ vreply' = "analysis" /\ vpc' = "await_final"
             /\ UNCHANGED tmp
        ELSE MV_except
    /\ UNCHANGED <<path_known, tpc, attempts, transcript, analysis>>
    /\ voiceFrame

\* lines 422-432
MV_Final ==
    /\ variant = "mono" /\ vpc = "await_final"
    /\ \E ok \in BOOLEAN :
        IF ok
        THEN vpc' = "done" /\ UNCHANGED <<tmp, vreply>>
        ELSE MV_except
    /\ UNCHANGED <<path_known, tpc, attempts, transcript, analysis>>
    /\ voiceFrame

mono_handle_voice ==
    \/ MV_Begin \/ MV_Processing \/ MV_GetFile \/ MV_Download
    \/ MV_EditTranscribing \/ MV_EditFailed \/ MV_EditAnalyzing
    \/ MV_Delete \/ MV_Final

(***************************************************************************)
(* The single-file bot as it runs: Application.builder().build() handles   *)
(* one update at a time, so one task.                                      *)
(***************************************************************************)
MonoInit ==
    /\ constructed = FALSE
    /\ authorized_users = {}
    /\ users_json \in FileStates
    /\ has_pending = FALSE
    /\ pending_invitations = << >>
    /\ now = 0
    /\ tasks = [h \in Tasks |-> IdleTask]
    /\ running = NoTask
    /\ issued = {}
    /\ loaded = {}
    /\ grantedBy = [t \in Tokens |-> {}]
    /\ grantCount = [t \in Tokens |-> 0]

\* the packaged bot before it is constructed
PkgOff ==
    /\ pkg_up = "off"
    /\ users = {}
    /\ users_file = FileMissing
    /\ admin_user_id = NoAdmin
    /\ presented = {}

\* no voice message
VoiceOff ==
    /\ variant = "pkg"
    /\ v_auth = FALSE
    /\ vpc = "off"
    /\ vreply = "none"
    /\ tmp = "none"
    /\ path_known = FALSE
    /\ tpc = "idle"
    /\ attempts = << >>
    /\ transcript = NoText
    /\ analysis = "none"

\* no call made on a store directly
UMOff ==
    /\ last_call = NoCall
    /\ all_saved = TRUE

Init == MonoInit /\ PkgOff /\ VoiceOff /\ UMOff

Next ==
    \/ MonoConstruct
    \/ Tick
    \/ MonoHandlers({1})

Spec == Init /\ [][Next]_vars

(***************************************************************************)
(* The single-file bot with updates handled concurrently: up to MaxTasks   *)
(* handler tasks interleave at their awaits.  The clock is left out and    *)
(* the bot starts without a file.                                          *)
(***************************************************************************)
ConcInit ==
    /\ MonoInit
    /\ PkgOff
    /\ VoiceOff
    /\ UMOff
    /\ users_json = FileMissing

ConcNext ==
    \/ MonoConstruct
    \/ MonoHandlers(Tasks)

SpecConc == ConcInit /\ [][ConcNext]_vars

(***************************************************************************)
(* The packaged bot as core/bot.py constructs and runs it, one update at   *)
(* a time.                                                                 *)
(***************************************************************************)
PkgInit ==
    /\ MonoInit
    /\ users_json = FileMissing
    /\ pkg_up = "off"
    /\ users = {}
    /\ users_file \in FileStates
    /\ admin_user_id = NoAdmin
    /\ presented = {}
    /\ VoiceOff
    /\ UMOff

PkgNext ==
    \/ PkgConstruct
    \/ PkgHandlers({1})

SpecPkg == PkgInit /\ [][PkgNext]_vars

(***************************************************************************)
(* One voice message, handled by either bot.                               *)
(***************************************************************************)
VoiceInit ==
    /\ MonoInit
    /\ users_json = FileMissing
    /\ PkgOff
    /\ UMOff
    /\ variant \in {"pkg", "mono"}
    /\ v_auth \in BOOLEAN
    /\ vpc = "new"
    /\ vreply = "none"
    /\ tmp = "none"
    /\ path_known = FALSE
    /\ tpc = "idle"
    /\ attempts = << >>
    /\ transcript = NoText
    /\ analysis = "none"

VoiceNext ==
    \/ handle_voice
    \/ transcribe_audio
    \/ mono_handle_voice

SpecVoice == VoiceInit /\ [][VoiceNext]_vars

\* The same, with every attempt of transcribe_audio ending: the subprocess
\* is run with timeout=30, curl with --max-time 30 and timeout=35, and the
\* in-process client is made with timeout=30.0, so a strategy that has
\* started returns or raises.
SpecVoiceFair ==
    VoiceInit /\ [][VoiceNext]_vars /\ WF_vars(transcribe_audio)

(***************************************************************************)
(* Either bot as it runs, with commands and voice messages: the bot is     *)
(* constructed, then takes one update at a time.                           *)
(***************************************************************************)
\* a voice message of user u is the next update
VoiceArrives(u) ==
    /\ vpc = "off"
    /\ running = NoTask
    /\ \A h \in Tasks : tasks[h].pc = "idle"
    /\ \/ variant = "mono" /\ constructed /\ v_auth' = is_authorized(u)
       \/ variant = "pkg" /\ pkg_up = "up" /\ v_auth' = (u \in users)
    /\ vpc' = "new"
    /\ UNCHANGED <<vreply, tmp, path_known, tpc, attempts, transcript, analysis>>
    /\ UNCHANGED <<monoVars, pkgVars, umVars, variant>>

\* handle_voice returned or raised: the update is done with
VoiceEnds ==
    /\ vpc \in {"done", "raised"}
    /\ v_auth' = FALSE
    /\ vpc' = "off"
    /\ vreply' = "none"
    /\ tmp' = "none"
    /\ path_known' = FALSE
    /\ tpc' = "idle"
    /\ attempts' = << >>
    /\ transcript' = NoText
    /\ analysis' = "none"
    /\ UNCHANGED <<monoVars, pkgVars, umVars, variant>>

BotsInit ==
    /\ variant \in {"pkg", "mono"}
    /\ MonoInit
    /\ users_json \in {FileMissing, FileJson({999})}
    /\ pkg_up = "off"
    /\ users = {}
    /\ users_file \in {FileMissing, FileJson({999})}
    /\ variant = "mono" => users_file = FileMissing
    /\ variant = "pkg" => users_json = FileMissing
    /\ admin_user_id = NoAdmin
    /\ presented = {}
    /\ v_auth = FALSE
    /\ vpc = "off"
    /\ vreply = "none"
    /\ tmp = "none"
    /\ path_known = FALSE
    /\ tpc = "idle"
    /\ attempts = << >>
    /\ transcript = NoText
    /\ analysis = "none"
    /\ UMOff

BotsMonoConstruct == variant = "mono" /\ MonoConstruct
BotsPkgConstruct == variant = "pkg" /\ PkgConstruct

BotsNext ==
    \/ BotsMonoConstruct
    \/ BotsPkgConstruct
    \/ MonoHandlers({1})
    \/ PkgCommands({1})
    \/ \E u \in Users : VoiceArrives(u)
    \/ handle_voice
    \/ transcribe_audio
    \/ mono_handle_voice
    \/ VoiceEnds

SpecBots == BotsInit /\ [][BotsNext]_vars

(***************************************************************************)
(* A UserManager used directly: constructed over any file, with or without *)
(* an administrator, then add_user and remove_user in any order, and new   *)
(* stores over the same file.                                              *)
(***************************************************************************)
UMInit ==
    /\ MonoInit
    /\ users_json = FileMissing
    /\ pkg_up = "off"
    /\ users = {}
    /\ users_file \in FileStates
    /\ admin_user_id = NoAdmin
    /\ presented = {}
    /\ VoiceOff
    /\ UMOff

UMNext ==
    \/ \E admin \in {NoAdmin, ADMIN_USER_ID} : UM_Construct(admin)
    \/ \E u \in Users : UM_add_user(u)
    \/ \E u \in Users : UM_remove_user(u)

SpecUM == UMInit /\ [][UMNext]_vars

(***************************************************************************)
(* Properties of the invitation tokens of src/bot.py.                      *)
(***************************************************************************)
\* the redemption tasks whose reply is decided and being sent
Redeemed(h) == tasks[h].kind = "redeem" /\ tasks[h].pc = "reply"

\* everyone line 202 has added so far
Granted == UNION {grantedBy[t] : t \in Tokens}

\* C1: single-use redemption.  A redemption of a pending token adds the
\* redeemer and answers with the welcome; a redemption of a token that is
\* not pending answers "invalid"; once a token has granted membership it is
\* no longer pending, so every later redemption is invalid; nobody is a
\* member who was not loaded, is not the administrator and was not granted;
\* and no token grants membership more than once.
C1_SingleUse ==
    /\ \A t \in Tokens : grantCount[t] <= 1
    /\ \A t \in Tokens :
          (grantCount[t] >= 1 /\ running = NoTask) => ~IsPending(t)
    /\ \A h \in Tasks : Redeemed(h) =>
          /\ tasks[h].found => /\ tasks[h].reply = "granted"
                               /\ tasks[h].user \in authorized_users
                               /\ tasks[h].user \in grantedBy[tasks[h].token]
          /\ ~tasks[h].found => tasks[h].reply = "invalid"
    /\ constructed =>
          authorized_users = loaded \cup {ADMIN_USER_ID} \cup Granted

\* C1 witness: a token that has granted membership once is redeemed again
\* and the reply is "invalid".
C1_Witness ==
    \E h \in Tasks :
        /\ Redeemed(h)
        /\ tasks[h].reply = "invalid"
        /\ grantCount[tasks[h].token] = 1
        /\ tasks[h].user \notin authorized_users

\* C2: a redemption of a pending token older than the validity window is
\* answered "expired" and grants nothing.  (The code never reads
\* created_at: this is violated.)
C2_ExpiredTokenRejected ==
    \A h \in Tasks :
        (Redeemed(h) /\ tasks[h].found /\ tasks[h].expired) =>
            /\ tasks[h].reply = "expired"
            /\ tasks[h].user \notin grantedBy[tasks[h].token]

\* C3: under concurrent handling no token adds two identities.
C3_NoDoubleGrant ==
    \A t \in Tokens : Cardinality(grantedBy[t]) <= 1

\* C3 witness: two redemptions of the same token by different identities
\* are in flight together, one granted and one invalid.
C3_Witness ==
    \E h1, h2 \in Tasks :
        /\ h1 # h2
        /\ Redeemed(h1) /\ Redeemed(h2)
        /\ tasks[h1].token = tasks[h2].token
        /\ tasks[h1].user # tasks[h2].user
        /\ tasks[h1].reply = "granted"
        /\ tasks[h2].reply = "invalid"

\* C4: removal before grant.  In no state is an identity a member by a
\* token's redemption while that token is still pending.  (The code adds
\* and saves first and removes the token last: this is violated.)
C4_RemovedBeforeGrant ==
    \A t \in Tokens : grantedBy[t] # {} => ~IsPending(t)

(***************************************************************************)
(* Properties of the packaged bot.                                         *)
(***************************************************************************)
\* C5: the invitation link end to end.  The first /start invite_T with a
\* token T of an /invite link is answered with the welcome and its sender
\* is authorized; a later /start invite_T is answered with the
\* invalid-or-expired rejection.  (start_command never reads the
\* parameter and no token is stored: this is violated.)
C5_InviteLinkGrants ==
    \A h \in Tasks :
        (tasks[h].pc = "reply" /\ tasks[h].kind = "start"
            /\ tasks[h].token \in issued) =>
        IF tasks[h].found
        THEN tasks[h].reply = "welcome" /\ tasks[h].user \in users
        ELSE tasks[h].reply = "invalid"

(***************************************************************************)
(* Properties of the transcription pipeline and of the voice handlers.     *)
(***************************************************************************)
Order == <<"subprocess", "curl", "inprocess", "inprocess">>
AttemptFailed(a) == a.status \notin {"exit0", "ok"}
AttemptText(a) == IF a.strategy = "inprocess" THEN a.out ELSE Strip(a.out)

\* C6: AIService.transcribe_audio tries the isolated subprocess, then curl,
\* then the in-process client; a strategy runs only after every earlier
\* one failed, and when one succeeds its text is returned and no later
\* strategy runs.
C6_FirstSuccess ==
    LET n == Len(attempts) IN
    /\ n <= Len(Order)
    /\ \A i \in 1..n : attempts[i].strategy = Order[i]
    /\ \A i \in 1..(n - 1) : AttemptFailed(attempts[i])
    /\ tpc = "returned" =>
        /\ n >= 1
        /\ ~AttemptFailed(attempts[n])
        /\ transcript = AttemptText(attempts[n])

\* the subprocess failed and curl answered: curl's text is returned
\* without a call of the in-process client
C6_Witness ==
    /\ tpc = "returned"
    /\ Len(attempts) = 2
    /\ attempts[1].status \in {"exit1", "timeout"}
    /\ attempts[2].strategy = "curl"
    /\ transcript = <<"a">>

\* C7: transcribe_audio raises to its caller only when the subprocess,
\* curl and the in-process client were each attempted and every attempt
\* failed.
C7_RaiseOnlyAfterExhaustion ==
    tpc = "raised" =>
        /\ \A s \in {"subprocess", "curl", "inprocess"} :
              \E i \in 1..Len(attempts) : attempts[i].strategy = s
        /\ \A i \in 1..Len(attempts) : AttemptFailed(attempts[i])

\* all three strategies failed, the in-process client in both of its calls
C7_Witness ==
    /\ tpc = "raised"
    /\ Len(attempts) = 4

\* C8: when every strategy failed, the error transcribe_audio raised makes
\* the handler of handlers/message_handlers.py answer that it could not
\* process the message, with no analysis made and the temporary file gone.
C8_AllStrategiesFail ==
    (variant = "pkg" /\ tpc = "raised" /\ vpc # "await_transcribe") =>
        /\ vpc \in {"await_edit_error", "done", "raised"}
        /\ vreply = "could_not_process"
        /\ analysis = "none"
        /\ tmp = "removed"

\* the handler finished after transcribe_audio raised
C8_Witness ==
    /\ variant = "pkg"
    /\ tpc = "raised"
    /\ vpc = "done"
    /\ path_known

\* C9: when either voice handler finishes, a temporary file it created has
\* been removed.
C9_TempFileRemoved ==
    vpc \in {"done", "raised"} => tmp \in {"none", "removed"}


\* C21: no lost updates.  With redemptions handled concurrently, everyone
\* a redemption added is in the set in memory, and once no redemption is
\* between its add and the end of its save, with no write failed, everyone
\* added is in the authorization file too: no save writes over what
\* another task added.
C21_NoLostUpdates ==
    /\ constructed => Granted \subseteq authorized_users
    /\ (all_saved /\ \A h \in Tasks : tasks[h].pc # "added") =>
          Granted \subseteq load_authorized_users(users_json)

\* two redemptions of different tokens by different identities are in
\* flight together, both granted and both in the file
C21_Witness ==
    \E h1, h2 \in Tasks :
        /\ h1 # h2
        /\ Redeemed(h1) /\ Redeemed(h2)
        /\ tasks[h1].reply = "granted" /\ tasks[h2].reply = "granted"
        /\ tasks[h1].token # tasks[h2].token
        /\ tasks[h1].user # tasks[h2].user
        /\ all_saved
        /\ {tasks[h1].user, tasks[h2].user} \subseteq
              load_authorized_users(users_json)

\* C27: an invalid token changes nothing.  A redemption of a token that is
\* not in the pending map (never issued in this run, or redeemed already)
\* is answered with the rejection and leaves the pending map, the
\* authorized set and the authorization file as they were.
C27_InvalidTokenNoEffect ==
    [][ \A h \in Tasks :
          (tasks[h].pc = "idle" /\ tasks'[h].kind = "redeem"
              /\ ~IsPending(tasks'[h].token)) =>
              /\ tasks'[h].pc = "reply"
              /\ tasks'[h].reply = "invalid"
              /\ UNCHANGED <<authorized_users, users_json, has_pending,
                             pending_invitations, grantedBy>> ]_vars

\* a token that was never issued is rejected while another is pending
C27_Witness ==
    \E h \in Tasks :
        /\ Redeemed(h)
        /\ tasks[h].reply = "invalid"
        /\ tasks[h].token \notin issued
        /\ DOMAIN pending_invitations # {}

\* C24: durable state tracks memory.  In src/bot.py, once constructed and
\* with no write failed, the identities in the authorization file are
\* those of the set in memory whenever no redemption is between its add
\* and its save.  (__init__ adds the administrator to the set in memory
\* and writes nothing: this is violated.)
C24_DurableTracksMemory ==
    (constructed /\ all_saved /\ \A h \in Tasks : tasks[h].pc # "added") =>
        load_authorized_users(users_json) = authorized_users

\* C10: administrator bootstrap.  The step that constructs the store
\* leaves the configured administrator a member, for the packaged bot and
\* for src/bot.py.  (core/bot.py passes no administrator to UserManager:
\* this is violated.)
C10_AdminAfterConstruction ==
    [][ /\ (pkg_up = "off" /\ pkg_up' = "up") => ADMIN_USER_ID \in users'
        /\ (~constructed /\ constructed') =>
              ADMIN_USER_ID \in authorized_users' ]_vars

(***************************************************************************)
(* Properties of the authorization store utils/user_manager.py.            *)
(***************************************************************************)
Mutation(c) == c.op \in {"add", "remove"}

\* C11: the administrator a store was constructed with is a member in
\* every state after construction.  (remove_user removes the
\* administrator like anyone else: this is violated.)
C11_AdminAlwaysMember ==
    (pkg_up = "up" /\ admin_user_id # NoAdmin) => admin_user_id \in users

\* C12: membership round trip.  After add_user(X) X is authorized, after
\* remove_user(X) it is not, either call leaves the membership of everyone
\* else as it was, and add_user(X) for a new X followed by remove_user(X)
\* gives back the membership from before the add.
C12_RoundTrip ==
    LET c == last_call
        x == c.user
    IN  /\ c.op = "add" => x \in users
        /\ c.op = "remove" => x \notin users
        /\ Mutation(c) => users \ {x} = c.before \ {x}
        /\ (c.op = "remove" /\ c.prev.op = "add" /\ c.prev.user = x
              /\ x \notin c.prev.before) => users = c.prev.before

\* add_user(X) for a new X, then remove_user(X), in a store with others
C12_Witness ==
    /\ last_call.op = "remove"
    /\ last_call.prev.op = "add"
    /\ last_call.prev.user = last_call.user
    /\ last_call.user \notin last_call.prev.before
    /\ last_call.prev.before # {}

\* C13: add_user answers True exactly for a new user and then the count
\* grows by one; remove_user answers True exactly for a member and then
\* the count shrinks by one; a call that answers False changes neither
\* the set nor the file.
C13_IdempotentMutations ==
    LET c == last_call IN
    /\ c.op = "add" =>
          /\ c.ret = (c.user \notin c.before)
          /\ c.ret => Cardinality(users) = Cardinality(c.before) + 1
    /\ c.op = "remove" =>
          /\ c.ret = (c.user \in c.before)
          /\ c.ret => Cardinality(users) = Cardinality(c.before) - 1
    /\ (Mutation(c) /\ ~c.ret) =>
          /\ users = c.before
          /\ users_file = c.file_before

\* add_user(X) twice: the second call answers False, with a file that
\* does not hold what memory holds
C13_Witness ==
    /\ last_call.op = "add"
    /\ ~last_call.ret
    /\ last_call.prev.op = "add"
    /\ last_call.prev.user = last_call.user
    /\ last_call.user \notin last_call.prev.before
    /\ users_file # FileJson(users)

C20_FailedWriteKeepsFile ==
    LET c == last_call IN
    (Mutation(c) /\ c.ret /\ c.outcome # "ok") =>
        /\ (c.op = "add") = (c.user \in users)
        /\ users_file = c.file_before
        /\ UM_load_users(users_file) = UM_load_users(c.file_before)

\* C19: constructing a store never raises, whatever the file is, and over
\* a file that is absent or not usable the store starts with nobody but
\* the administrator.  (_ensure_file_exists writes an absent file outside
\* any try: this is violated.)
C19_LoadNeverFails ==
    /\ pkg_up # "failed"
    /\ (last_call.op = "init" /\ last_call.file_before.kind # "json") =>
          users = (IF admin_user_id # NoAdmin THEN {admin_user_id} ELSE {})

(***************************************************************************)
(* Properties of the error handling of the voice handlers.                 *)
(***************************************************************************)
\* C17: the handler of an authorized voice message never ends by raising.
\* (The first reply of handlers/message_handlers.py is outside the try, and
\* in both handlers the error reply of the except block is unguarded: this
\* is violated.)
C17_NoRawException ==
    v_auth => vpc # "raised"

\* C18: an analysis call that fails is answered with the placeholder
\* result, never with an exception in the handler.  (AIService.analyze_text
\* raises again and the handler of handlers/message_handlers.py ends in its
\* error reply: this is violated.)
C18_AnalysisDegrades ==
    analysis # "failed"

(***************************************************************************)
(* Properties of the commands and voice messages of either bot.            *)
(***************************************************************************)
\* task h takes an update of the given kind in this step
Takes(h, kind) ==
    tasks[h].pc = "idle" /\ tasks'[h].pc = "reply" /\ tasks'[h].kind = kind

\* u is in the authorized set of the bot that runs
Member(u) == IF variant = "mono" THEN u \in authorized_users ELSE u \in users

StoreUnchanged ==
    UNCHANGED <<authorized_users, users_json, has_pending,
                pending_invitations, users, users_file>>

\* C15: /invite from anyone but the administrator is refused and leaves
\* the pending tokens as they were, and every pending token was issued
\* by the administrator.
C15_IssuingAdminOnly ==
    [][ /\ \A h \in Tasks :
              (Takes(h, "invite") /\ tasks'[h].user # ADMIN_USER_ID) =>
                  /\ tasks'[h].reply = "only_admin"
                  /\ UNCHANGED <<has_pending, pending_invitations, issued>>
        /\ \A t \in DOMAIN pending_invitations' :
              pending_invitations'[t].created_by = ADMIN_USER_ID ]_vars

\* someone else's /invite is being refused while a token is pending
C15_Witness ==
    \E h \in Tasks :
        /\ tasks[h].kind = "invite"
        /\ tasks[h].reply = "only_admin"
        /\ DOMAIN pending_invitations # {}

\* a voice message of a non-member: the handler sends the denial and
\* returns, with nothing downloaded, transcribed or analyzed
VoiceDenied ==
    /\ (vpc = "new" /\ ~v_auth) =>
          /\ vpc' = "await_denied"
          /\ vreply' = "denied"
          /\ StoreUnchanged
    /\ vpc = "await_denied" =>
          /\ vpc' \in {"done", "raised"}
          /\ tmp' = "none" /\ tpc' = "idle" /\ analysis' = "none"
          /\ StoreUnchanged

C22_AdminAutoAdd ==
    [][ \A h \in Tasks :
          (Takes(h, "start") /\ tasks'[h].user \notin users) =>
              IF tasks'[h].user = ADMIN_USER_ID
              THEN /\ users' = users \cup {ADMIN_USER_ID}
                   /\ tasks'[h].reply = "welcome"
                   /\ last_call'.op = "add" /\ last_call'.ret
                   /\ last_call'.before = users
                   /\ last_call'.outcome = "ok" =>
                          users_file' = FileJson(users')
              ELSE /\ tasks'[h].reply = "denied"
                   /\ UNCHANGED <<users, users_file, last_call>> ]_vars

\* the administrator's /start was answered with the welcome after the
\* add, saved into a file that held another member
C22_Witness ==
    \E h \in Tasks :
        /\ tasks[h].pc = "reply" /\ tasks[h].kind = "start"
        /\ tasks[h].user = ADMIN_USER_ID
        /\ tasks[h].reply = "welcome"
        /\ last_call.op = "add" /\ last_call.user = ADMIN_USER_ID
        /\ last_call.before = {999}
        /\ users_file = FileJson({ADMIN_USER_ID, 999})

(***************************************************************************)
(* Properties of the order of the stages of one voice message.             *)
(***************************************************************************)
\* the step in which the transcription of the handler that runs starts
TranscriptionStarts ==
    \/ variant = "pkg" /\ tpc = "idle" /\ tpc' = "s1"
    \/ variant = "mono" /\ vpc = "await_edit_transcribing"
          /\ vpc' \in {"await_edit_failed", "await_edit_analyzing"}

\* the step in which the analysis is called
AnalysisStarts ==
    \/ variant = "pkg" /\ vpc = "await_edit_analyzing" /\ vpc' = "await_analyze"
    \/ variant = "mono" /\ vpc = "await_edit_analyzing" /\ analysis' # "none"

\* the step that hands the analysis reply to Telegram
RenderStarts == vreply # "analysis" /\ vreply' = "analysis"

\* the stages follow each other in the order download, transcribe,
\* analyze, render
StagesInOrder ==
    /\ TranscriptionStarts => (tmp # "none" /\ analysis = "none"
                                 /\ transcript = NoText)
    /\ AnalysisStarts => (transcript # NoText /\ analysis = "none"
                            /\ (variant = "pkg" => tpc = "returned"))
    /\ RenderStarts => analysis' \in {"ok", "degraded"}

\* C23: the stages of a voice message run in the order download,
\* transcribe, analyze, render; transcription starts only on a downloaded
\* file that is not empty, analysis only on a transcript that is a text
\* and not empty, the reply only after the analysis returned.  (src/bot.py
\* does not look at the size of the download, and the handler of
\* handlers/message_handlers.py analyzes an empty transcript: this is
\* violated.)
C23_SequentialStages ==
    [][ /\ StagesInOrder
        /\ TranscriptionStarts => tmp = "data"
        /\ AnalysisStarts => transcript # << >> ]_vars

(***************************************************************************)
(* Properties of the fallback chain of AIService.transcribe_audio.         *)
(***************************************************************************)
\* the state of transcribe_audio in which the strategy after s is due
NextDue(s) == IF s = "subprocess" THEN "s2" ELSE "s3"
NextStrategy(s) == IF s = "subprocess" THEN "curl" ELSE "inprocess"

\* C25: an error of the subprocess or of curl is followed by the next
\* strategy whatever its message, an error that names response_format
\* like any other; the minimal in-process call that fails is followed by
\* the call with the explicit format; and transcribe_audio raises only
\* what the last in-process call raised.
C25_PollutionNotTerminal ==
    LET n == Len(attempts) IN
    /\ \A i \in 1..n :
          (attempts[i].strategy \in {"subprocess", "curl"}
              /\ AttemptFailed(attempts[i])) =>
          IF i = n THEN tpc = NextDue(attempts[i].strategy)
          ELSE attempts[i + 1].strategy = NextStrategy(attempts[i].strategy)
    /\ \A i \in 1..n :
          (attempts[i].call = "minimal" /\ AttemptFailed(attempts[i])) =>
              (i < n /\ attempts[i + 1].call = "text"
                     /\ attempts[i + 1].strategy = "inprocess")
    /\ tpc = "raised" =>
          (attempts[n].strategy = "inprocess" /\ AttemptFailed(attempts[n]))

\* the subprocess and curl both failed on response_format, and so did the
\* minimal in-process call; the call with the explicit format answered
C25_Witness ==
    /\ tpc = "returned"
    /\ Len(attempts) = 4
    /\ \A i \in 1..3 : attempts[i].err = "response_format"
    /\ attempts[4].status = "ok"

\* the positions of the backend calls WhisperService.transcribe made
InProcessCalls ==
    {i \in 1..Len(attempts) : attempts[i].strategy = "inprocess"
                                /\ attempts[i].call # "none"}

\* C26: WhisperService.transcribe makes the minimal call first and, only
\* if that fails, one call with response_format="text": never more than
\* two calls; the text of the call that succeeded is returned, and the
\* error of a failed second call is raised.
C26_InProcessLastResort ==
    LET n == Len(attempts) IN
    /\ Cardinality(InProcessCalls) <= 2
    /\ \A i \in InProcessCalls :
          /\ attempts[i].call = "minimal" =>
                (i = 1 \/ attempts[i - 1].strategy # "inprocess")
          /\ attempts[i].call = "text" =>
                /\ i > 1 /\ attempts[i - 1].strategy = "inprocess"
                /\ attempts[i - 1].call = "minimal"
                /\ AttemptFailed(attempts[i - 1])
                /\ i = n
                /\ IF AttemptFailed(attempts[i]) THEN tpc = "raised"
                   ELSE tpc = "returned" /\ transcript = attempts[i].out
          /\ (attempts[i].call = "minimal" /\ ~AttemptFailed(attempts[i])) =>
                (i = n /\ tpc = "returned" /\ transcript = attempts[i].out)
          /\ (attempts[i].call = "minimal" /\ AttemptFailed(attempts[i])) =>
                (i + 1 = n /\ attempts[n].call = "text")

\* the minimal call failed and the call with the explicit format
\* answered; its text is returned as it came
C26_Witness ==
    /\ tpc = "returned"
    /\ Len(attempts) = 4
    /\ attempts[3].call = "minimal" /\ attempts[3].err = "other"
    /\ attempts[4].call = "text"
    /\ transcript = <<"a", "\n">>

\* how many attempts of strategy s were made
AttemptsOf(s) ==
    Cardinality({i \in 1..Len(attempts) : attempts[i].strategy = s})

\* the place of a strategy in the chain
Rank(s) == CASE s = "subprocess" -> 1 [] s = "curl" -> 2 [] OTHER -> 3

\* at most one subprocess run, one curl run and two in-process calls, and
\* no strategy after a later one
AttemptBounds ==
    /\ AttemptsOf("subprocess") <= 1
    /\ AttemptsOf("curl") <= 1
    /\ AttemptsOf("inprocess") <= 2
    /\ \A i, j \in 1..Len(attempts) :
          i < j => Rank(attempts[i].strategy) <= Rank(attempts[j].strategy)

\* C30: bounded fallback and termination.  Every call of
\* AIService.transcribe_audio ends, returning or raising, when each
\* attempt ends; it makes at most one subprocess run, one curl run and
\* two in-process calls, and never goes back to a strategy that failed.
C30_BoundedTermination ==
    /\ []AttemptBounds
    /\ (tpc = "s1") ~> (tpc \in {"returned", "raised"})

\* the subprocess and curl ran into their timeouts, the minimal
\* in-process call failed and the last call answered
C30_Witness ==
    /\ tpc = "returned"
    /\ Len(attempts) = 4
    /\ attempts[1].status = "timeout"
    /\ attempts[2].status = "timeout"

\* C29: a strategy's output is a transcript only when the backend
\* succeeded.  Whenever the backend answered curl with an error, curl
\* counts as failed and the in-process client is tried, and the body of
\* an error response is never what transcribe_audio returns.  (curl runs
\* without --fail and exits 0 on an HTTP error; transcribe_with_curl
\* returns its stdout: this is violated.)
C29_TranscriptOnlyOnSuccess ==
    LET n == Len(attempts) IN
    /\ \A i \in 1..n :
          (attempts[i].strategy = "curl" /\ attempts[i].err # "none") =>
              IF i = n THEN tpc = "s3"
              ELSE attempts[i + 1].strategy = "inprocess"
    /\ tpc = "returned" => attempts[n].err = "none"

(***************************************************************************)
(* Properties of how identities become members of the packaged bot.        *)
(***************************************************************************)
\* C28: membership is gated by invitation.  Once the store is loaded, an
\* update adds nobody but the administrator or the sender of an update
\* that carries a token of an /invite link not presented before.
\* (handle_callback adds the sender of any callback query whose data
\* starts with accept_invite_, whatever follows: this is violated.)
C28_GatedByInvitation ==
    [][ pkg_up = "up" =>
          \A u \in users' \ users :
              \/ u = ADMIN_USER_ID
              \/ \E h \in Tasks : /\ tasks'[h].user = u
                                   /\ tasks'[h].token \in issued \ presented
      ]_vars

====
